---- MODULE Spec2Model ----
(***************************************************************************)
(* A model of synth's device behaviour: the generic device of              *)
(* synth/device.py (registry, property map, telemetry propagation,         *)
(* self-rescheduling ticks, external commands) and the Battery device of   *)
(* synth/devices/battery.py.                                               *)
(*                                                                         *)
(* Simulated time is counted in hundredths of a second, so that the decay  *)
(* period batteryLife/100.0 of a whole number of seconds is exact.         *)
(* Fractions (comms reliability, random.random()) are counted in percent.  *)
(***************************************************************************)
EXTENDS Integers, Sequences, FiniteSets, TLC

VARIABLES
    devices,         \* device.py:36   the global list of devices
    updateCallback,  \* device.py:38   TRUE when init() installed a callback
    queue,           \* the engine's pending events, in dispatch order
    now,             \* the engine's simulated clock
    halted,          \* the process has exited (exit(-1))
    sunk,            \* calls of updateCallback made by the last operation
    logfile,         \* lines written to the .evt log file by the last operation
    logging,         \* records passed to the logging module by the last operation
    raised,          \* the exception the last operation let escape, or "none"
    registered,      \* the events the last operation registered with the engine
    mutated,         \* the property maps the last operation merged into a device
    op,              \* the last operation: its name, device and arguments
    charged,         \* when a battery was last set to 100, and the decay ticks
                     \* pending just after (history, read by the properties only)
    steps,           \* operations still to be explored
    calls            \* calls from outside the engine still to be explored

vars == <<devices, updateCallback, queue, now, halted, sunk, logfile, logging,
          raised, registered, mutated, op, charged, steps, calls>>

----------------------------------------------------------------------------
(* Bounds of the exploration *)

MaxDevices == 2
MaxSteps == 5
MaxCalls == 2
RunSteps == 220
QuietSteps == 12

(* Inputs *)

DeviceIds == {"A", "B"}
EventNames == {"replaceBattery", "upgradeFirmware", "factoryReset", "ping"}
FirmwareArgs == {"v2"}
Draws == {0, 99}
Reliabilities == {0, 50, 100}
LifeMus == {200}
LifeSigmas == {50}
Pauses == {100}
RunLives == {5*60, 10*60*60}
CommsPeriods == {60*60}

----------------------------------------------------------------------------
(* Program constants *)

DEFAULT_BATTERY_LIFE_S == 5*60
GOOD_RSSI == -50
BAD_RSSI == -120
FULL == 100
None == 0
NoProps == [k \in {} |-> 0]
InitialBattery == {0, 1, FULL}

Hundredths(seconds) == seconds * 100
HOUR == Hundredths(1*60*60)
DAY == 24 * HOUR
Min(a, b) == IF a < b THEN a ELSE b
Max(a, b) == IF a > b THEN a ELSE b
Abs(a) == IF a < 0 THEN -a ELSE a

RECURSIVE Gcd(_, _)
Gcd(a, b) == IF b = 0 THEN a ELSE Gcd(b, a % b)

(* commsReliability is "either a fraction, or a string containing a        *)
(* specification of the trajectory" (device.py:124)                        *)
Fraction(percent) == [number |-> TRUE, value |-> percent]
Trajectory == [number |-> FALSE, value |-> 0]

----------------------------------------------------------------------------
(* The engine, as the device code uses it *)

register_event_at(w, t, cb, i) ==
    LET e == [at |-> t, cb |-> cb, dev |-> i]
        k == Cardinality({j \in 1..Len(w.queue) : w.queue[j].at <= t})
    IN [w EXCEPT !.queue = SubSeq(@, 1, k) \o <<e>> \o SubSeq(@, k + 1, Len(@)),
                 !.registered = Append(@, e)]

register_event_in(w, delay, cb, i) == register_event_at(w, w.now + delay, cb, i)

Raise(w, exc) == [w EXCEPT !.raised = exc]

----------------------------------------------------------------------------
(* The collaborators timewave and solar: functions of the simulated time *)

nextUsageTime(t) == (t \div DAY + 1) * DAY + 6 * HOUR

sunBright(t) == IF (t \div HOUR) % 24 \in 6..17 THEN 7 ELSE 0

----------------------------------------------------------------------------
(* device.py: module-level functions *)

getDeviceByProperty(devs, prop, value) ==
    LET hits == {j \in 1..Len(devs) :
                    /\ devs[j].cls = "device"
                    /\ prop \in DOMAIN devs[j].properties
                    /\ devs[j].properties[prop] = value}
    IN IF hits = {} THEN None ELSE CHOOSE j \in hits : \A k \in hits : j <= k

logEntry(w, time, properties) ==
    [w EXCEPT !.logfile = Append(@, [kind |-> "entry", time |-> time,
                                     props |-> properties, text |-> ""])]

logString(w, s) ==
    [w EXCEPT !.logging = Append(@, [level |-> "info", text |-> s]),
              !.logfile = Append(@, [kind |-> "string", time |-> 0,
                                     props |-> NoProps, text |-> s])]

----------------------------------------------------------------------------
(* device.py: class device *)

propertyExists(d, propName) == propName \in DOMAIN d.properties
propertyAbsent(d, propName) == ~propertyExists(d, propName)
getProperty(d, propName) == d.properties[propName]

DecayDelay(life) == Hundredths(life) \div 100

doComms_regardless(w, i, time, properties) ==
    logEntry(IF updateCallback
             THEN [w EXCEPT !.sunk = Append(@,
                      [id |-> w.devices[i].device_id, time |-> time,
                       props |-> properties])]
             ELSE w,
             time, properties)

doComms(w, i, time, properties) ==
    IF w.devices[i].commsOK
    THEN LET w1 == IF updateCallback
                   THEN [w EXCEPT !.sunk = Append(@,
                            [id |-> w.devices[i].device_id, time |-> time,
                             props |-> properties])]
                   ELSE [w EXCEPT !.logging = Append(@,
                            [level |-> "warning",
                             text |-> "No callback installed to update device properties"])]
         IN logEntry(w1, time, properties)
    ELSE w

setProperty(w, i, time, propName, value) ==
    LET d == w.devices[i]
        newProps == [k \in {propName, "$id", "$ts"} |->
                        IF k = "$id" THEN d.device_id
                        ELSE IF k = "$ts" THEN time ELSE value]
        w1 == [w EXCEPT !.devices[i].properties = newProps @@ @,
                        !.mutated = Append(@, newProps)]
    IN doComms(w1, i, time, newProps)

setProperties(w, i, time, props) ==
    LET d == w.devices[i]
        newProps == [k \in {"$id", "$ts"} |->
                        IF k = "$id" THEN d.device_id ELSE time] @@ props
        w1 == [w EXCEPT !.devices[i].properties = newProps @@ @,
                        !.mutated = Append(@, newProps)]
    IN doComms(w1, i, time, newProps)

startTicks_always(w, i) ==
    LET d == w.devices[i]
        w1 == register_event_in(w, DecayDelay(d.batteryLife), "tickBatteryDecay", i)
        w2 == register_event_in(w1, HOUR, "tickHourly", i)
    IN register_event_in(w2, 0, "tickProductUsage", i)

startTicks(w, i) ==
    LET d == w.devices[i]
        w1 == IF propertyExists(d, "battery")
              THEN register_event_in(w, DecayDelay(d.batteryLife), "tickBatteryDecay", i)
              ELSE w
        w2 == register_event_in(w1, HOUR, "tickHourly", i)
    IN register_event_in(w2, 0, "tickProductUsage", i)

device_init(w, device_id, time, properties, autoTick) ==
    IF getDeviceByProperty(w.devices, "$id", device_id) # None
    THEN [w EXCEPT !.logging = Append(@, [level |-> "error",
                        text |-> "FATAL: Attempt to create duplicate device"]),
                   !.halted = TRUE]
    ELSE LET d == [cls |-> "device",
                   device_id |-> device_id,
                   properties |-> properties,
                   commsReliability |-> Fraction(100),
                   commsUpDownPeriod |-> 1*60*60*24,
                   batteryLife |-> DEFAULT_BATTERY_LIFE_S,
                   batteryAutoreplace |-> FALSE,
                   commsOK |-> TRUE]
             i == Len(w.devices) + 1
             w1 == [w EXCEPT !.devices = Append(@, d)]
             w2 == doComms(w1, i, time, properties)
         IN IF autoTick THEN startTicks(w2, i) ELSE w2

device_externalEvent_ungated(w, i, eventName, arg) ==
    LET w0 == logString(w, "Processing external event")
        w1 == IF eventName = "replaceBattery"
              THEN startTicks(setProperty(w0, i, w0.now, "battery", FULL), i)
              ELSE w0
    IN IF propertyExists(w1.devices[i], "battery")
          /\ getProperty(w1.devices[i], "battery") <= 0
       THEN logString(w1, "...ignored because battery flat")
       ELSE IF eventName = "upgradeFirmware"
            THEN setProperty(w1, i, w1.now, "firmware", arg)
            ELSE w1

device_externalEvent_norestart(w, i, eventName, arg) ==
    LET w0 == logString(w, "Processing external event")
    IN IF eventName = "replaceBattery"
       THEN setProperty(w0, i, w0.now, "battery", FULL)
       ELSE w0

device_externalEvent(w, i, eventName, arg) ==
    IF propertyAbsent(w.devices[i], "$id") THEN Raise(w, "KeyError")
    ELSE
    LET w0 == logString(w, "Processing external event")
        w1 == IF eventName = "replaceBattery"
              THEN startTicks(setProperty(w0, i, w0.now, "battery", FULL), i)
              ELSE w0
        d1 == w1.devices[i]
    IN IF propertyAbsent(d1, "battery") THEN Raise(w1, "KeyError")
       ELSE IF getProperty(d1, "battery") <= 0
            THEN logString(w1, "...ignored because battery flat")
       ELSE IF ~d1.commsOK
            THEN logString(w1, "...ignored because comms down")
       ELSE LET w2 == IF eventName = "upgradeFirmware"
                      THEN setProperty(w1, i, w1.now, "firmware", arg)
                      ELSE w1
            IN IF eventName = "factoryReset"
               THEN IF propertyAbsent(w2.devices[i], "factoryFirmware")
                    THEN Raise(w2, "KeyError")
                    ELSE setProperty(w2, i, w2.now, "firmware",
                                     getProperty(w2.devices[i], "factoryFirmware"))
               ELSE w2

tickProductUsage_unpowered(w, i) ==
    register_event_at(setProperty(w, i, w.now, "buttonPress", 1),
                      nextUsageTime(w.now), "tickProductUsage", i)

tickProductUsage(w, i) ==
    LET d == w.devices[i]
    IN IF propertyAbsent(d, "battery") \/ getProperty(d, "battery") > 0
       THEN register_event_at(setProperty(w, i, w.now, "buttonPress", 1),
                              nextUsageTime(w.now), "tickProductUsage", i)
       ELSE w

setCommsReliability(w, i, upDownPeriod, reliability) ==
    register_event_in(
        [w EXCEPT !.devices[i].commsUpDownPeriod = upDownPeriod,
                  !.devices[i].commsReliability = reliability],
        0, "tickCommsUpDown", i)

setBatteryLife(w, i, mu, sigma, autoreplace, sample) ==
    LET life == Max(Min(sample, mu + 2*sigma), mu - 2*sigma)
    IN [w EXCEPT !.devices[i].batteryLife = life,
                 !.devices[i].batteryAutoreplace = autoreplace]

radioGoodness(rssi) ==
    LET span == GOOD_RSSI - BAD_RSSI
        short == GOOD_RSSI - rssi
        k == Gcd(Abs(short), span)
        n == short \div k
        m == span \div k
    IN [num |-> m*m*m*m - n*n*n*n, den |-> m*m*m*m]

commsUpProbability(d, interp) ==
    IF d.commsReliability.number
    THEN [num |-> d.commsReliability.value, den |-> 1]
    ELSE IF propertyExists(d, "rssi")
         THEN LET g == radioGoodness(getProperty(d, "rssi"))
              IN [num |-> interp * g.num, den |-> g.den]
         ELSE [num |-> interp, den |-> 1]

tickCommsUpDown_uncapped(w, i, draw, expo, interp) ==
    LET d == w.devices[i]
        prob == commsUpProbability(d, interp)
        w1 == [w EXCEPT !.devices[i].commsOK = (prob.num > draw * prob.den)]
    IN register_event_in(w1, expo, "tickCommsUpDown", i)

tickCommsUpDown(w, i, draw, expo, interp) ==
    LET d == w.devices[i]
        prob == commsUpProbability(d, interp)
        w1 == [w EXCEPT !.devices[i].commsOK = (prob.num > draw * prob.den)]
        deltaTime == Min(expo, Hundredths(d.commsUpDownPeriod) * 100)
    IN register_event_in(w1, deltaTime, "tickCommsUpDown", i)

tickBatteryDecay_unguarded(w, i) ==
    LET d == w.devices[i]
        v == getProperty(d, "battery")
    IN register_event_in(setProperty(w, i, w.now, "battery", v - 1),
                         DecayDelay(d.batteryLife), "tickBatteryDecay", i)

tickBatteryDecay_stopsAtZero(w, i) ==
    LET d == w.devices[i]
        v == getProperty(d, "battery")
        w1 == setProperty(w, i, w.now, "battery", v - 1)
    IN IF v > 1
       THEN register_event_in(w1, DecayDelay(d.batteryLife), "tickBatteryDecay", i)
       ELSE IF v = 1 THEN w1
       ELSE IF d.batteryAutoreplace
            THEN register_event_in(setProperty(w, i, w.now, "battery", FULL),
                                   DecayDelay(d.batteryLife), "tickBatteryDecay", i)
            ELSE w

tickBatteryDecay_replacesAtOnce(w, i) ==
    LET d == w.devices[i]
        v == getProperty(d, "battery")
    IN IF v > 1 \/ (v = 1 /\ ~d.batteryAutoreplace)
       THEN register_event_in(setProperty(w, i, w.now, "battery", v - 1),
                              DecayDelay(d.batteryLife), "tickBatteryDecay", i)
       ELSE IF d.batteryAutoreplace
            THEN register_event_in(setProperty(w, i, w.now, "battery", FULL),
                                   DecayDelay(d.batteryLife), "tickBatteryDecay", i)
            ELSE w

tickBatteryDecay(w, i) ==
    LET d == w.devices[i]
        v == getProperty(d, "battery")
    IN IF propertyAbsent(d, "battery") THEN Raise(w, "KeyError")
       ELSE IF v > 0
       THEN register_event_in(setProperty(w, i, w.now, "battery", v - 1),
                              DecayDelay(d.batteryLife), "tickBatteryDecay", i)
       ELSE IF d.batteryAutoreplace
            THEN register_event_in(
                    setProperty([w EXCEPT !.logging = Append(@,
                                    [level |-> "info", text |-> "Auto-replacing battery"])],
                                i, w.now, "battery", FULL),
                    DecayDelay(d.batteryLife), "tickBatteryDecay", i)
            ELSE w

tickHourly(w, i) ==
    LET d == w.devices[i]
    IN IF propertyAbsent(d, "battery") \/ getProperty(d, "battery") > 0
       THEN IF propertyAbsent(d, "longitude") \/ propertyAbsent(d, "latitude")
            THEN Raise(w, "KeyError")
            ELSE Raise(setProperty(w, i, w.now, "light", sunBright(w.now)), "NameError")
       ELSE w

----------------------------------------------------------------------------
(* devices/battery.py: class Battery(Device).  The base class Device is not *)
(* part of the sources; what Battery needs of it is taken from the         *)
(* specification: a registered device whose property map holds $id and     *)
(* $ts, whose set_property merges, stamps and propagates, and whose        *)
(* external_event logs the receipt.  Battery devices are registered by     *)
(* that base class: the list of device.py holds the generic devices only.  *)

Device_comms_ok(d) == d.commsOK

Battery_comms_ok(d) ==
    Device_comms_ok(d)
    /\ (IF "battery" \in DOMAIN d.properties THEN d.properties["battery"] ELSE FULL) > 0

Device_set_property(w, i, propName, value) ==
    LET d == w.devices[i]
        newProps == [k \in {propName, "$id", "$ts"} |->
                        IF k = "$id" THEN d.device_id
                        ELSE IF k = "$ts" THEN w.now ELSE value]
        w1 == [w EXCEPT !.devices[i].properties = newProps @@ @,
                        !.mutated = Append(@, newProps)]
    IN IF Battery_comms_ok(w1.devices[i])
       THEN logEntry(IF updateCallback
                     THEN [w1 EXCEPT !.sunk = Append(@,
                              [id |-> d.device_id, time |-> w.now, props |-> newProps])]
                     ELSE w1,
                     w.now, newProps)
       ELSE w1

Device_init(w, instance_name, time) ==
    IF \E j \in 1..Len(w.devices) :
          w.devices[j].cls = "Battery" /\ w.devices[j].device_id = instance_name
    THEN [w EXCEPT !.logging = Append(@, [level |-> "error",
                        text |-> "FATAL: Attempt to create duplicate device"]),
                   !.halted = TRUE]
    ELSE LET properties == ("$id" :> instance_name) @@ ("$ts" :> time)
             d == [cls |-> "Battery",
                   device_id |-> instance_name,
                   properties |-> properties,
                   commsReliability |-> Fraction(100),
                   commsUpDownPeriod |-> 1*60*60*24,
                   batteryLife |-> DEFAULT_BATTERY_LIFE_S,
                   batteryAutoreplace |-> FALSE,
                   commsOK |-> TRUE]
             w1 == [w EXCEPT !.devices = Append(@, d)]
         IN logEntry(IF updateCallback
                     THEN [w1 EXCEPT !.sunk = Append(@,
                              [id |-> instance_name, time |-> time, props |-> properties])]
                     ELSE w1,
                     time, properties)

Device_external_event(w, i, event_name, arg) ==
    [w EXCEPT !.logging = Append(@, [level |-> "info",
                                     text |-> "Received external event"])]

Battery_init(w, instance_name, time, mu, sigma, autoreplace, sample) ==
    LET w1 == Device_init(w, instance_name, time)
        i == Len(w1.devices)
        life == Max(Max(Min(sample, mu + 2*sigma), mu - 2*sigma), 1)
        w2 == [w1 EXCEPT !.devices[i].batteryLife = life,
                         !.devices[i].batteryAutoreplace = autoreplace,
                         !.devices[i].properties = ("battery" :> FULL) @@ @]
    IN IF w1.halted THEN w1
       ELSE register_event_in(w2, DecayDelay(life), "tick_battery_decay", i)

Battery_external_event(w, i, event_name, arg) ==
    Raise(Device_external_event(w, i, event_name, arg), "NameError")

tick_battery_decay(w, i) ==
    LET d == w.devices[i]
        v == d.properties["battery"]
    IN IF v > 0
       THEN register_event_in(Device_set_property(w, i, "battery", v - 1),
                              DecayDelay(d.batteryLife), "tick_battery_decay", i)
       ELSE IF d.batteryAutoreplace
            THEN register_event_in(
                    Device_set_property([w EXCEPT !.logging = Append(@,
                                    [level |-> "info", text |-> "Auto-replacing battery on device"])],
                                i, "battery", FULL),
                    DecayDelay(d.batteryLife), "tick_battery_decay", i)
            ELSE w

----------------------------------------------------------------------------
(* device.py: externalEvent(params), the entry point of inbound events *)

Scanned(devs, deviceId) ==
    LET stops == {j \in 1..Len(devs) :
                    /\ devs[j].cls = "device"
                    /\ \/ "$id" \notin DOMAIN devs[j].properties
                       \/ devs[j].properties["$id"] = deviceId}
    IN IF stops = {} THEN None ELSE CHOOSE s \in stops : \A k \in stops : s <= k

Routed(devs, deviceId) ==
    LET j == Scanned(devs, deviceId)
    IN IF j # None /\ "$id" \in DOMAIN devs[j].properties THEN j ELSE None

externalEvent(w, params) ==
    LET body == params.body
        w0 == [w EXCEPT !.logging = Append(@, [level |-> "info",
                                               text |-> "external Event received"])]
        failed(x) == [logString(x, "Error processing external event")
                        EXCEPT !.logging = Append(@, [level |-> "error",
                                    text |-> "Error processing externalEvent"]),
                               !.raised = "none"]
    IN IF Scanned(w.devices, body.deviceId) = None THEN failed(w0)
       ELSE LET j == Scanned(w.devices, body.deviceId)
            IN IF "$id" \notin DOMAIN w.devices[j].properties THEN failed(w0)
               ELSE LET arg == IF "arg" \in DOMAIN body THEN body.arg ELSE "None"
                        w1 == device_externalEvent(w0, j, body.eventName, arg)
                    IN IF w1.raised # "none" THEN failed(w1) ELSE w1

----------------------------------------------------------------------------
(* The state machine *)

IsDecay(e) == e.cb \in {"tickBatteryDecay", "tick_battery_decay"}

Charged(w) ==
    IF \E k \in 1..Len(w.mutated) :
          "battery" \in DOMAIN w.mutated[k] /\ w.mutated[k]["battery"] = FULL
    THEN [at |-> w.now,
          chains |-> Cardinality({k \in 1..Len(w.queue) : IsDecay(w.queue[k])})]
    ELSE charged

Begin(t) ==
    [devices |-> devices, queue |-> queue, now |-> t, halted |-> FALSE,
     sunk |-> <<>>, logfile |-> <<>>, logging |-> <<>>, raised |-> "none",
     registered |-> <<>>, mutated |-> <<>>]

Commit(w, o) ==
    /\ devices' = w.devices
    /\ queue' = w.queue
    /\ now' = w.now
    /\ halted' = w.halted
    /\ sunk' = w.sunk
    /\ logfile' = w.logfile
    /\ logging' = w.logging
    /\ raised' = w.raised
    /\ registered' = w.registered
    /\ mutated' = w.mutated
    /\ op' = o
    /\ charged' = Charged(w)
    /\ steps' = steps - 1
    /\ UNCHANGED updateCallback

Operation(name, i) ==
    [name |-> name, dev |-> i, deviceId |-> "", eventName |-> "", arg |-> ""]

BaseProperties ==
    ("factoryFirmware" :> "f0") @@ ("firmware" :> "f1")
    @@ ("longitude" :> 0) @@ ("latitude" :> 51)

InitialProperties ==
    { BaseProperties } \cup { ("battery" :> b) @@ BaseProperties : b \in InitialBattery }

Running == ~halted /\ steps > 0
Calling == Running /\ calls > 0

Due(cb, i) ==
    /\ Running
    /\ queue # <<>>
    /\ Head(queue).cb = cb
    /\ Head(queue).dev = i

Fire == [Begin(Max(now, Head(queue).at)) EXCEPT !.queue = Tail(queue)]

Init ==
    /\ devices = <<>>
    /\ updateCallback \in BOOLEAN
    /\ queue = <<>>
    /\ now = 0
    /\ halted = FALSE
    /\ sunk = <<>>
    /\ logfile = <<>>
    /\ logging = <<>>
    /\ raised = "none"
    /\ registered = <<>>
    /\ mutated = <<>>
    /\ op = Operation("init", None)
    /\ charged = [at |-> 0, chains |-> 0]
    /\ steps = MaxSteps
    /\ calls = MaxCalls

Create(id, autoTick) ==
    /\ Calling
    /\ Len(devices) < MaxDevices
    /\ \E properties \in InitialProperties :
          Commit(device_init(Begin(now), id, now, properties, autoTick),
                 Operation("device", Len(devices) + 1))
    /\ calls' = calls - 1

ExternalEvent(deviceId, eventName) ==
    /\ Calling
    /\ \E body \in IF eventName = "upgradeFirmware"
                   THEN { [deviceId |-> deviceId, eventName |-> eventName, arg |-> a] :
                            a \in FirmwareArgs }
                   ELSE { [deviceId |-> deviceId, eventName |-> eventName] } :
          Commit(externalEvent(Begin(now), [body |-> body]),
                 [name |-> "externalEvent",
                  dev |-> Routed(devices, deviceId),
                  deviceId |-> deviceId,
                  eventName |-> eventName,
                  arg |-> IF "arg" \in DOMAIN body THEN body.arg ELSE "None"])
    /\ calls' = calls - 1

TickBatteryDecay(i) ==
    /\ Due("tickBatteryDecay", i)
    /\ Commit(tickBatteryDecay(Fire, i), Operation("tickBatteryDecay", i))
    /\ UNCHANGED calls

TickHourly(i) ==
    /\ Due("tickHourly", i)
    /\ Commit(tickHourly(Fire, i), Operation("tickHourly", i))
    /\ UNCHANGED calls

TickProductUsage(i) ==
    /\ Due("tickProductUsage", i)
    /\ Commit(tickProductUsage(Fire, i), Operation("tickProductUsage", i))
    /\ UNCHANGED calls

CreateBattery(id, autoreplace) ==
    /\ Calling
    /\ Len(devices) < MaxDevices
    /\ \E mu \in LifeMus, sigma \in LifeSigmas :
       \E sample \in {mu - 3*sigma, mu + 3*sigma} :
          Commit(Battery_init(Begin(now), id, now, mu, sigma, autoreplace, sample),
                 Operation("Battery", Len(devices) + 1))
    /\ calls' = calls - 1

BatteryExternalEvent(i, eventName) ==
    /\ Calling
    /\ i \in 1..Len(devices)
    /\ devices[i].cls = "Battery"
    /\ Commit(Battery_external_event(Begin(now), i, eventName, "None"),
              [name |-> "external_event", dev |-> i,
               deviceId |-> devices[i].device_id, eventName |-> eventName,
               arg |-> "None"])
    /\ calls' = calls - 1

SetCommsReliability(i, reliability) ==
    /\ Calling
    /\ i \in 1..Len(devices)
    /\ devices[i].cls = "device"
    /\ \E upDownPeriod \in CommsPeriods :
          Commit(setCommsReliability(Begin(now), i, upDownPeriod, Fraction(reliability)),
                 Operation("setCommsReliability", i))
    /\ calls' = calls - 1

SetBatteryLife(i, autoreplace) ==
    /\ Calling
    /\ i \in 1..Len(devices)
    /\ devices[i].cls = "device"
    /\ \E mu \in LifeMus, sigma \in LifeSigmas :
       \E sample \in {mu - 3*sigma, mu + 3*sigma} :
          Commit(setBatteryLife(Begin(now), i, mu, sigma, autoreplace, sample),
                 Operation("setBatteryLife", i))
    /\ calls' = calls - 1

StartTicks(i) ==
    /\ Calling
    /\ i \in 1..Len(devices)
    /\ devices[i].cls = "device"
    /\ Commit(startTicks(Begin(now), i), Operation("startTicks", i))
    /\ calls' = calls - 1

SetProperty(i) ==
    /\ Calling
    /\ i \in 1..Len(devices)
    /\ devices[i].cls = "device"
    /\ Commit(setProperty(Begin(now), i, now, "$id", "Z"), Operation("setProperty", i))
    /\ calls' = calls - 1

SetProperties(i) ==
    /\ Calling
    /\ i \in 1..Len(devices)
    /\ devices[i].cls = "device"
    /\ Commit(setProperties(Begin(now), i, now, ("$id" :> "Z") @@ ("label" :> "x")),
              Operation("setProperties", i))
    /\ calls' = calls - 1

Advance(pause) ==
    /\ Calling
    /\ IF queue = <<>> THEN TRUE ELSE now + pause < Head(queue).at
    /\ Commit(Begin(now + pause), Operation("advance", None))
    /\ calls' = calls - 1

TickCommsUpDown(i) ==
    /\ Due("tickCommsUpDown", i)
    /\ \E draw \in Draws :
       \E expo \in {HOUR, Hundredths(devices[i].commsUpDownPeriod) * 100 + 1} :
       \E interp \in IF devices[i].commsReliability.number THEN {0} ELSE Reliabilities :
          Commit(tickCommsUpDown(Fire, i, draw, expo, interp),
                 [Operation("tickCommsUpDown", i) EXCEPT !.arg = <<draw, interp>>])
    /\ UNCHANGED calls

Tick_battery_decay(i) ==
    /\ Due("tick_battery_decay", i)
    /\ Commit(tick_battery_decay(Fire, i), Operation("tick_battery_decay", i))
    /\ UNCHANGED calls

Next ==
    \/ \E id \in DeviceIds, autoTick \in BOOLEAN : Create(id, autoTick)
    \/ \E id \in DeviceIds, autoreplace \in BOOLEAN : CreateBattery(id, autoreplace)
    \/ \E id \in DeviceIds, e \in EventNames : ExternalEvent(id, e)
    \/ \E i \in 1..MaxDevices, e \in EventNames : BatteryExternalEvent(i, e)
    \/ \E i \in 1..MaxDevices, r \in Reliabilities : SetCommsReliability(i, r)
    \/ \E i \in 1..MaxDevices, autoreplace \in BOOLEAN : SetBatteryLife(i, autoreplace)
    \/ \E i \in 1..MaxDevices : StartTicks(i)
    \/ \E i \in 1..MaxDevices : SetProperty(i)
    \/ \E i \in 1..MaxDevices : SetProperties(i)
    \/ \E pause \in Pauses : Advance(pause)
    \/ \E i \in 1..MaxDevices : TickBatteryDecay(i)
    \/ \E i \in 1..MaxDevices : TickHourly(i)
    \/ \E i \in 1..MaxDevices : TickProductUsage(i)
    \/ \E i \in 1..MaxDevices : TickCommsUpDown(i)
    \/ \E i \in 1..MaxDevices : Tick_battery_decay(i)

Spec == Init /\ [][Next]_vars

----------------------------------------------------------------------------
(* The life of one device: the registry holds one device, just constructed *)

World0 ==
    [devices |-> <<>>, queue |-> <<>>, now |-> 0, halted |-> FALSE,
     sunk |-> <<>>, logfile |-> <<>>, logging |-> <<>>, raised |-> "none",
     registered |-> <<>>, mutated |-> <<>>]

Constructed ==
    { device_init(World0, "A", 0, properties, autoTick) :
        properties \in InitialProperties, autoTick \in BOOLEAN }
    \cup
    { Battery_init(World0, "A", 0, c[1], c[2], c[3], c[4]) :
        c \in { <<mu, sigma, autoreplace, mu + k * sigma>> :
                  mu \in LifeMus, sigma \in LifeSigmas,
                  autoreplace \in BOOLEAN, k \in {-3, 3} } }

Starts(w, o, budget, outside) ==
    /\ devices = w.devices
    /\ queue = w.queue
    /\ now = w.now
    /\ halted = w.halted
    /\ sunk = w.sunk
    /\ logfile = w.logfile
    /\ logging = w.logging
    /\ raised = w.raised
    /\ registered = w.registered
    /\ mutated = w.mutated
    /\ op = o
    /\ charged = [at |-> 0,
                  chains |-> Cardinality({k \in 1..Len(w.queue) : IsDecay(w.queue[k])})]
    /\ steps = budget
    /\ calls = outside

InitDevice ==
    /\ updateCallback \in BOOLEAN
    /\ \E w \in Constructed : Starts(w, Operation("construct", 1), MaxSteps, MaxCalls)

NextDevice ==
    \/ \E id \in DeviceIds, e \in EventNames : ExternalEvent(id, e)
    \/ \E i \in 1..MaxDevices, e \in EventNames : BatteryExternalEvent(i, e)
    \/ \E i \in 1..MaxDevices, r \in Reliabilities : SetCommsReliability(i, r)
    \/ \E i \in 1..MaxDevices, autoreplace \in BOOLEAN : SetBatteryLife(i, autoreplace)
    \/ \E i \in 1..MaxDevices : StartTicks(i)
    \/ \E i \in 1..MaxDevices : SetProperty(i)
    \/ \E i \in 1..MaxDevices : SetProperties(i)
    \/ \E pause \in Pauses : Advance(pause)
    \/ \E i \in 1..MaxDevices : TickBatteryDecay(i)
    \/ \E i \in 1..MaxDevices : TickHourly(i)
    \/ \E i \in 1..MaxDevices : TickProductUsage(i)
    \/ \E i \in 1..MaxDevices : TickCommsUpDown(i)
    \/ \E i \in 1..MaxDevices : Tick_battery_decay(i)

SpecDevice == InitDevice /\ [][NextDevice]_vars

----------------------------------------------------------------------------
(* A full battery running down: one device with battery = 100 whose battery *)
(* life was set before its ticks were started, and no command              *)

GenericStarts(autoreplace) ==
    { startTicks(
        setBatteryLife(
            device_init(World0, "A", 0, ("battery" :> FULL) @@ BaseProperties, FALSE),
            1, mu, 0, autoreplace, mu),
        1) : mu \in RunLives }

BatteryStarts(autoreplace) ==
    { Battery_init(World0, "A", 0, mu, 0, autoreplace, mu) : mu \in RunLives }

InitRun ==
    /\ updateCallback \in BOOLEAN
    /\ \E autoreplace \in BOOLEAN :
       \E w \in GenericStarts(autoreplace) \cup BatteryStarts(autoreplace) :
          Starts(w, Operation("construct", 1), RunSteps, 0)

NextRun ==
    \/ \E i \in 1..MaxDevices : TickBatteryDecay(i)
    \/ \E i \in 1..MaxDevices : TickHourly(i)
    \/ \E i \in 1..MaxDevices : TickProductUsage(i)
    \/ \E i \in 1..MaxDevices : Tick_battery_decay(i)

SpecRun == InitRun /\ [][NextRun]_vars

(* The same device without autoreplace, time passing between the ticks, and *)
(* replaceBattery delivered once the battery is flat                       *)

ReplaceWhenFlat(id) ==
    /\ \E i \in 1..Len(devices) :
          /\ devices[i].device_id = id
          /\ "battery" \in DOMAIN devices[i].properties
          /\ devices[i].properties["battery"] <= 0
    /\ ExternalEvent(id, "replaceBattery")

InitResume ==
    /\ updateCallback \in BOOLEAN
    /\ \E w \in GenericStarts(FALSE) :
          Starts(w, Operation("construct", 1), RunSteps, MaxCalls)

NextResume ==
    \/ \E id \in DeviceIds : ReplaceWhenFlat(id)
    \/ \E pause \in Pauses : Advance(pause)
    \/ \E i \in 1..MaxDevices : TickBatteryDecay(i)
    \/ \E i \in 1..MaxDevices : TickHourly(i)
    \/ \E i \in 1..MaxDevices : TickProductUsage(i)

SpecResume == InitResume /\ [][NextResume]_vars

----------------------------------------------------------------------------
(* Short battery lives: the battery life is sampled for small mu and sigma, *)
(* by setBatteryLife on a generic device and by the constructor of Battery *)

ShortMus == {0, 1, 2}
ShortSigmas == {0, 1}
Samples(mu, sigma) == {mu - 3*sigma, mu, mu + 3*sigma}

SetShortBatteryLife(i, autoreplace) ==
    /\ Calling
    /\ i \in 1..Len(devices)
    /\ devices[i].cls = "device"
    /\ \E mu \in ShortMus, sigma \in ShortSigmas :
       \E sample \in Samples(mu, sigma) :
          Commit(setBatteryLife(Begin(now), i, mu, sigma, autoreplace, sample),
                 [Operation("setBatteryLife", i) EXCEPT !.arg = <<mu, sigma>>])
    /\ calls' = calls - 1

CreateShortBattery(id, autoreplace) ==
    /\ Calling
    /\ Len(devices) < MaxDevices
    /\ \E mu \in ShortMus, sigma \in ShortSigmas :
       \E sample \in Samples(mu, sigma) :
          Commit(Battery_init(Begin(now), id, now, mu, sigma, autoreplace, sample),
                 [Operation("Battery", Len(devices) + 1) EXCEPT !.arg = <<mu, sigma>>])
    /\ calls' = calls - 1

InitLife ==
    /\ updateCallback \in BOOLEAN
    /\ \E b \in InitialBattery :
          Starts(device_init(World0, "A", 0, ("battery" :> b) @@ BaseProperties, FALSE),
                 Operation("construct", 1), MaxSteps, MaxCalls)

NextLife ==
    \/ \E id \in DeviceIds, autoreplace \in BOOLEAN : CreateShortBattery(id, autoreplace)
    \/ \E i \in 1..MaxDevices, autoreplace \in BOOLEAN : SetShortBatteryLife(i, autoreplace)
    \/ \E i \in 1..MaxDevices : StartTicks(i)
    \/ \E i \in 1..MaxDevices : TickBatteryDecay(i)
    \/ \E i \in 1..MaxDevices : TickProductUsage(i)
    \/ \E i \in 1..MaxDevices : Tick_battery_decay(i)

SpecLife == InitLife /\ [][NextLife]_vars

----------------------------------------------------------------------------
(* Comms up and down: one device, created with its identifier in the       *)
(* property map, with or without a battery and an rssi property; its comms *)
(* reliability is set to a fraction or to a trajectory, and commands reach *)
(* it between the comms ticks                                              *)

RssiValues == {-190, -120, -85, -50, 20}

CommsProperties ==
    LET base == ("$id" :> "A") @@ BaseProperties
        powered == { base } \cup { ("battery" :> b) @@ base : b \in {0, FULL} }
    IN powered \cup { ("rssi" :> r) @@ q : r \in RssiValues, q \in powered }

SetCommsTrajectory(i) ==
    /\ Calling
    /\ i \in 1..Len(devices)
    /\ devices[i].cls = "device"
    /\ \E upDownPeriod \in CommsPeriods :
          Commit(setCommsReliability(Begin(now), i, upDownPeriod, Trajectory),
                 Operation("setCommsReliability", i))
    /\ calls' = calls - 1

InitComms ==
    /\ updateCallback \in BOOLEAN
    /\ \E properties \in CommsProperties :
          Starts(device_init(World0, "A", 0, properties, FALSE),
                 Operation("construct", 1), MaxSteps, MaxCalls)

NextComms ==
    \/ \E id \in DeviceIds, e \in EventNames : ExternalEvent(id, e)
    \/ \E i \in 1..MaxDevices, r \in Reliabilities : SetCommsReliability(i, r)
    \/ \E i \in 1..MaxDevices : SetCommsTrajectory(i)
    \/ \E i \in 1..MaxDevices : TickCommsUpDown(i)
    \/ \E i \in 1..MaxDevices : TickBatteryDecay(i)
    \/ \E i \in 1..MaxDevices : TickProductUsage(i)

SpecComms == InitComms /\ [][NextComms]_vars

----------------------------------------------------------------------------
(* A battery running flat for good: one device without autoreplace, its    *)
(* battery at or near 0 when its ticks are started; the engine dispatches  *)
(* every pending event in turn, and commands other than replaceBattery     *)
(* reach the device in between                                             *)

LastBattery == {0, 1, 2}

QuietStarts ==
    { startTicks(
        setBatteryLife(
            device_init(World0, "A", 0, ("battery" :> b) @@ BaseProperties, FALSE),
            1, mu, 0, FALSE, mu),
        1) : mu \in RunLives, b \in LastBattery }

InitQuiet ==
    /\ updateCallback \in BOOLEAN
    /\ \E w \in QuietStarts : Starts(w, Operation("construct", 1), QuietSteps, MaxCalls)

Ticks ==
    \/ \E i \in 1..MaxDevices : TickBatteryDecay(i)
    \/ \E i \in 1..MaxDevices : TickHourly(i)
    \/ \E i \in 1..MaxDevices : TickProductUsage(i)

NextQuiet ==
    \/ \E id \in DeviceIds, e \in EventNames \ {"replaceBattery"} : ExternalEvent(id, e)
    \/ Ticks

SpecQuiet == InitQuiet /\ [][NextQuiet]_vars /\ WF_vars(Ticks)

----------------------------------------------------------------------------
(* Properties *)

Registered == 1..Len(devices)
Entries == SelectSeq(logfile, LAMBDA l : l.kind = "entry")
Constructing == op.name \in {"init", "construct", "device", "Battery"}
HasBattery(d) == "battery" \in DOMAIN d.properties
Flat(d) == HasBattery(d) /\ d.properties["battery"] <= 0
Powered(d) == ~HasBattery(d) \/ d.properties["battery"] > 0

\* C1: in every reachable state no two registered devices have the same
\* identifier (a creation with an identifier already in use adds no entry).
C1_UniqueIdentifiers ==
    \A i, j \in Registered :
        i # j => devices[i].device_id # devices[j].device_id

\* C2: the battery property of every device is an integer in 0..100 in every
\* reachable state, whatever ticks and commands have run.
C2_BatteryRange ==
    \A i \in Registered :
        HasBattery(devices[i]) => devices[i].properties["battery"] \in 0..FULL

\* C2 witness: a decay tick has just fired on a device whose battery is flat.
C2_DecayAtZero ==
    /\ op.name \in {"tickBatteryDecay", "tick_battery_decay"}
    /\ devices[op.dev].properties["battery"] = 0
    /\ mutated = <<>>

\* C5: an external event other than replaceBattery that reaches a device whose
\* battery is flat or whose comms are down changes no property of the device,
\* propagates nothing and registers no callback.
C5_CommandGating ==
    [][ ( /\ op'.name = "externalEvent"
          /\ op'.dev # None
          /\ op'.eventName # "replaceBattery"
          /\ (Flat(devices[op'.dev]) \/ ~devices[op'.dev].commsOK) )
        => /\ devices' = devices
           /\ queue' = queue
           /\ registered' = <<>>
           /\ mutated' = <<>>
           /\ sunk' = <<>>
           /\ SelectSeq(logfile', LAMBDA l : l.kind = "entry") = <<>> ]_vars

\* C5 witness: upgradeFirmware has just been delivered to a device with a
\* charged battery and comms down, and was ignored.
C5_IgnoredCommsDown ==
    /\ op.name = "externalEvent"
    /\ op.dev # None
    /\ op.eventName = "upgradeFirmware"
    /\ ~devices[op.dev].commsOK
    /\ ~Flat(devices[op.dev])
    /\ \E k \in 1..Len(logfile) : logfile[k].text = "...ignored because comms down"

\* C6: after replaceBattery is delivered to a device (generic or Battery) its
\* battery is 100 and no error was raised.
C6_ReplaceBatterySucceeds ==
    ( /\ op.name \in {"externalEvent", "external_event"}
      /\ op.dev # None
      /\ op.eventName = "replaceBattery" )
    => /\ raised = "none"
       /\ \A k \in 1..Len(logging) : logging[k].level # "error"
       /\ HasBattery(devices[op.dev])
       /\ devices[op.dev].properties["battery"] = FULL

\* C7 (as stated): every mutation made by an operation on a generic device
\* stamps $ts with the simulated time and is propagated as exactly one
\* telemetry event carrying the changed properties, comms up or down.
C7_MandatoryPropagation ==
    (~Constructing /\ op.dev # None /\ devices[op.dev].cls = "device")
    => /\ \A k \in 1..Len(mutated) : mutated[k]["$ts"] = now
       /\ Entries = [k \in 1..Len(mutated) |->
                        [kind |-> "entry", time |-> now, props |-> mutated[k], text |-> ""]]
       /\ updateCallback =>
             sunk = [k \in 1..Len(mutated) |->
                        [id |-> devices[op.dev].device_id, time |-> now,
                         props |-> mutated[k]]]

\* C7 (amended): every mutation stamps $ts (and $id) and, when commsOK is
\* true, is propagated as exactly one telemetry event carrying the changed
\* properties: one log entry, and one sink notification when a sink is
\* installed.  When commsOK is false nothing is propagated.
C7_PropagationWhenCommsUp ==
    (~Constructing /\ op.dev # None /\ devices[op.dev].cls = "device")
    => LET d == devices[op.dev]
           sent == IF d.commsOK THEN mutated ELSE <<>>
       IN /\ \A k \in 1..Len(mutated) :
                /\ mutated[k]["$ts"] = now
                /\ mutated[k]["$id"] = d.device_id
                /\ \A n \in DOMAIN mutated[k] : n \in DOMAIN d.properties
          /\ Entries = [k \in 1..Len(sent) |->
                          [kind |-> "entry", time |-> now, props |-> sent[k], text |-> ""]]
          /\ sunk = IF updateCallback
                    THEN [k \in 1..Len(sent) |->
                            [id |-> d.device_id, time |-> now, props |-> sent[k]]]
                    ELSE <<>>

\* C7 witness: a mutation was made while comms were down, and none was sent.
C7_MutationCommsDown ==
    /\ ~Constructing
    /\ op.dev # None
    /\ devices[op.dev].cls = "device"
    /\ ~devices[op.dev].commsOK
    /\ Len(mutated) = 1
    /\ Entries = <<>>

\* C8: the property map of every registered device holds $id and $ts, and
\* $id is the identifier the device was created with.
C8_IdentityInProperties ==
    \A i \in Registered :
        /\ "$id" \in DOMAIN devices[i].properties
        /\ "$ts" \in DOMAIN devices[i].properties
        /\ devices[i].properties["$id"] = devices[i].device_id

\* C10: an hourly tick on a powered device sets light and registers exactly
\* one further hourly tick one hour later; on an unpowered device it changes
\* and registers nothing.
C10_HourlyReschedules ==
    op.name = "tickHourly"
    => IF Powered(devices[op.dev])
       THEN /\ "light" \in DOMAIN devices[op.dev].properties
            /\ registered = <<[at |-> now + HOUR, cb |-> "tickHourly", dev |-> op.dev]>>
       ELSE mutated = <<>> /\ registered = <<>>

Period(d) == DecayDelay(d.batteryLife)
DecayTick(o) == o.name \in {"tickBatteryDecay", "tick_battery_decay"}
PendingDecay(q, i) == {k \in 1..Len(q) : IsDecay(q[k]) /\ q[k].dev = i}
NextDecay(o, t, d) ==
    [at |-> t + Period(d),
     cb |-> IF o.name = "tickBatteryDecay" THEN "tickBatteryDecay" ELSE "tick_battery_decay",
     dev |-> o.dev]

\* C3 (as stated): without autoreplace and without commands every decay tick
\* lowers the battery by exactly 1, the k-th tick firing k periods after the
\* start, and the tick that brings the value to 0 registers no decay tick and
\* leaves none pending.
C3_NoDecayAfterZero ==
    [][ (DecayTick(op') /\ ~devices[op'.dev].batteryAutoreplace)
        => LET d == devices[op'.dev]
               b == d.properties["battery"]
               after == devices'[op'.dev].properties["battery"]
           IN /\ b > 0 => after = b - 1 /\ now' = (FULL - after) * Period(d)
              /\ after = 0 => registered' = <<>> /\ PendingDecay(queue', op'.dev) = {} ]_vars

\* C3 (amended): every decay tick lowers the battery by exactly 1 and
\* registers the next one a period later, so the value reaches 0 exactly 100
\* periods after the start; the tick that brings it to 0 still registers one
\* more decay tick, and that tick, a period later, changes nothing and
\* registers nothing, after which no decay tick is pending.
C3_DecayStopsAfterZero ==
    [][ (DecayTick(op') /\ ~devices[op'.dev].batteryAutoreplace)
        => LET d == devices[op'.dev]
               b == d.properties["battery"]
               after == devices'[op'.dev].properties["battery"]
           IN IF b > 0
              THEN /\ after = b - 1
                   /\ now' = (FULL - after) * Period(d)
                   /\ registered' = <<NextDecay(op', now', d)>>
                   /\ Cardinality(PendingDecay(queue', op'.dev)) = 1
              ELSE /\ devices' = devices
                   /\ now' = (FULL + 1) * Period(d)
                   /\ mutated' = <<>>
                   /\ registered' = <<>>
                   /\ PendingDecay(queue', op'.dev) = {} ]_vars

\* C3 witness: the decay tick after the one that reached 0 has fired, 101
\* periods after the start, and the chain has ended.
C3_ChainEnded ==
    /\ DecayTick(op)
    /\ ~devices[op.dev].batteryAutoreplace
    /\ devices[op.dev].properties["battery"] = 0
    /\ now = (FULL + 1) * Period(devices[op.dev])
    /\ mutated = <<>>
    /\ PendingDecay(queue, op.dev) = {}

\* C4 (as stated): with autoreplace and no commands the battery cycles
\* 100 -> 0 -> 100, and each replacement comes exactly one battery life after
\* the moment the battery was last set to 100.
C4_CycleIsLife ==
    [][ (DecayTick(op') /\ devices[op'.dev].batteryAutoreplace)
        => LET d == devices[op'.dev]
               b == d.properties["battery"]
               after == devices'[op'.dev].properties["battery"]
           IN IF b > 0 THEN after = b - 1
              ELSE after = FULL /\ now' - charged.at = Hundredths(d.batteryLife) ]_vars

\* C4 (amended): with autoreplace and no commands every decay tick registers
\* the next one a period later; the battery goes from 100 to 0 in exactly one
\* battery life (100 periods), stays at 0 for one more period, and is set to
\* 100 again by the 101st tick: consecutive settings to 100 are one battery
\* life plus one decay period apart.
C4_CycleIsLifePlusPeriod ==
    [][ (DecayTick(op') /\ devices[op'.dev].batteryAutoreplace)
        => LET d == devices[op'.dev]
               b == d.properties["battery"]
               after == devices'[op'.dev].properties["battery"]
           IN /\ registered' = <<NextDecay(op', now', d)>>
              /\ Cardinality(PendingDecay(queue', op'.dev)) = 1
              /\ IF b > 0
                 THEN /\ after = b - 1
                      /\ charged' = charged
                      /\ after = 0 => now' - charged.at = Hundredths(d.batteryLife)
                 ELSE /\ after = FULL
                      /\ charged'.at = now'
                      /\ now' - charged.at = Hundredths(d.batteryLife) + Period(d) ]_vars

\* C4 witness: the second automatic replacement has just been made.
C4_SecondReplacement ==
    /\ DecayTick(op)
    /\ devices[op.dev].batteryAutoreplace
    /\ devices[op.dev].properties["battery"] = FULL
    /\ charged.at = now
    /\ now = 2 * (FULL + 1) * Period(devices[op.dev])

\* C9 (as stated): without autoreplace the battery first is 0 exactly one
\* battery life after the start and stays 0; replaceBattery delivered at any
\* time after that sets it to 100 and restarts the decay, one decrement per
\* period, so that it is 0 again exactly one battery life later.
C9_ExhaustAndResume ==
    /\ (op.name = "externalEvent" /\ op.dev # None /\ op.eventName = "replaceBattery")
       => /\ devices[op.dev].properties["battery"] = FULL
          /\ \E k \in 1..Len(registered) :
                registered[k] = [at |-> now + Period(devices[op.dev]),
                                 cb |-> "tickBatteryDecay", dev |-> op.dev]
    /\ DecayTick(op)
       => devices[op.dev].properties["battery"]
             = Max(0, FULL - ((now - charged.at) \div Period(devices[op.dev])))

\* C9 (amended): as stated, for a replaceBattery delivered when no decay tick
\* is pending, that is after the last registered decay tick, due one period
\* after the battery reached 0, has fired.
C9_ExhaustAndResumeSingleChain ==
    /\ (op.name = "externalEvent" /\ op.dev # None /\ op.eventName = "replaceBattery")
       => /\ devices[op.dev].properties["battery"] = FULL
          /\ \E k \in 1..Len(registered) :
                registered[k] = [at |-> now + Period(devices[op.dev]),
                                 cb |-> "tickBatteryDecay", dev |-> op.dev]
    /\ (DecayTick(op) /\ charged.chains = 1)
       => devices[op.dev].properties["battery"]
             = Max(0, FULL - ((now - charged.at) \div Period(devices[op.dev])))

\* C9 witness: the battery was replaced after the first chain had ended, and
\* is flat again exactly one battery life after the replacement.
C9_FlatAgain ==
    /\ DecayTick(op)
    /\ charged.at > (FULL + 1) * Period(devices[op.dev])
    /\ charged.chains = 1
    /\ devices[op.dev].properties["battery"] = 0
    /\ mutated # <<>>
    /\ now = charged.at + Hundredths(devices[op.dev].batteryLife)

\* C11: when an inbound event names an identifier that no registered device
\* has, a "No such device" message is written to the log and no error is
\* logged.
C11_NoSuchDeviceLogged ==
    ( /\ op.name = "externalEvent"
      /\ \A i \in Registered : devices[i].device_id # op.deviceId )
    => /\ \E k \in 1..Len(logfile) : logfile[k].text = "No such device"
       /\ \A k \in 1..Len(logging) : logging[k].level # "error"

\* C11: an inbound event that names an unknown identifier changes no device,
\* no pending callback, and does not end the process.
C11_UnknownDeviceHarmless ==
    [][ ( /\ op'.name = "externalEvent"
          /\ \A i \in Registered : devices[i].device_id # op'.deviceId )
        => /\ devices' = devices
           /\ queue' = queue
           /\ ~halted'
           /\ raised' = "none" ]_vars

\* C12: an operation that leaves its device with battery <= 0 delivers no
\* telemetry event, neither to the sink nor to the log, whatever commsOK is.
C12_FlatInhibitsComms ==
    (op.dev # None /\ Flat(devices[op.dev]))
    => /\ sunk = <<>>
       /\ Entries = <<>>

Recognized == {"replaceBattery", "upgradeFirmware", "factoryReset"}

\* C13: an external event with an unrecognized name that reaches a device
\* (with or without a battery property) only logs its receipt: no error is
\* raised or logged, no property changes and no callback is registered.
C13_UnknownCommandHarmless ==
    ( /\ op.name = "externalEvent"
      /\ op.dev # None
      /\ op.eventName \notin Recognized )
    => /\ raised = "none"
       /\ \A k \in 1..Len(logging) : logging[k].level # "error"
       /\ mutated = <<>>
       /\ registered = <<>>

\* C14: when the gate passes (the device is not at battery <= 0, a device
\* without a battery property included, and commsOK is true) upgradeFirmware
\* leaves firmware = arg and factoryReset leaves firmware = factoryFirmware;
\* $ts becomes the simulated time and every other property is unchanged.
C14_FirmwareCommands ==
    [][ ( /\ op'.name = "externalEvent"
          /\ op'.dev # None
          /\ op'.eventName \in {"upgradeFirmware", "factoryReset"}
          /\ ~Flat(devices[op'.dev])
          /\ devices[op'.dev].commsOK )
        => LET d == devices[op'.dev]
               fw == IF op'.eventName = "upgradeFirmware" THEN op'.arg
                     ELSE d.properties["factoryFirmware"]
           IN /\ raised' = "none"
              /\ devices'[op'.dev].properties =
                    ("firmware" :> fw) @@ ("$ts" :> now') @@ d.properties ]_vars

\* C15: the sampled battery life is strictly positive, for setBatteryLife and
\* for the constructor of Battery, so that every decay tick is registered for
\* a time after the present.
C15_PositiveBatteryLife ==
    /\ op.name \in {"setBatteryLife", "Battery"} => devices[op.dev].batteryLife > 0
    /\ \A k \in 1..Len(registered) : IsDecay(registered[k]) => registered[k].at > now

\* C15: the sampled battery life lies in [mu - 2 sigma, mu + 2 sigma], for
\* setBatteryLife and for the constructor of Battery.
C15_LifeWithinTwoSigma ==
    op.name \in {"setBatteryLife", "Battery"}
    => LET life == devices[op.dev].batteryLife
           mu == op.arg[1]
           sigma == op.arg[2]
       IN life >= mu - 2*sigma /\ life <= mu + 2*sigma

CommsTick == op.name = "tickCommsUpDown" /\ ~devices[op.dev].commsReliability.number

\* C16: for every rssi value and every base probability in [0,1] the comms-up
\* probability that a comms tick compares with its random draw lies in [0,1].
C16_ProbabilityInRange ==
    CommsTick
    => LET prob == commsUpProbability(devices[op.dev], op.arg[2])
       IN prob.num >= 0 /\ prob.num <= 100 * prob.den

\* C16: the radio factor is 1 at GOOD_RSSI, 0 at BAD_RSSI, and does not
\* increase as rssi worsens between the two.
C16_RadioFactorSkew ==
    CommsTick
    => /\ radioGoodness(GOOD_RSSI).num = radioGoodness(GOOD_RSSI).den
       /\ radioGoodness(BAD_RSSI).num = 0
       /\ \A r1, r2 \in {r \in RssiValues : BAD_RSSI <= r /\ r <= GOOD_RSSI} :
             r1 <= r2 => radioGoodness(r1).num * radioGoodness(r2).den
                            <= radioGoodness(r2).num * radioGoodness(r1).den

Pending(q, i, cb) == {k \in 1..Len(q) : q[k].dev = i /\ q[k].cb = cb}
TickKinds == {"tickBatteryDecay", "tickHourly", "tickProductUsage"}

\* C17: replaceBattery cancels no pending callback and registers one decay,
\* one hourly and one usage tick, so a device that had such a tick pending has
\* two of the kind afterwards; and once two decay chains run, the battery
\* drops by at least 2 for every life/100 of simulated time.
C17_DoubleRegistration ==
    /\ [][ ( /\ op'.name = "externalEvent"
              /\ op'.dev # None
              /\ op'.eventName = "replaceBattery" )
            => \A cb \in TickKinds :
                  /\ Cardinality(Pending(queue', op'.dev, cb))
                        = Cardinality(Pending(queue, op'.dev, cb)) + 1
                  /\ \A k \in Pending(queue, op'.dev, cb) :
                        \E j \in Pending(queue', op'.dev, cb) : queue'[j] = queue[k] ]_vars
    /\ [] ( ( /\ DecayTick(op)
               /\ charged.at > 0
               /\ charged.chains >= 2
               /\ \A k \in PendingDecay(queue, op.dev) : queue[k].at > now )
             => devices[op.dev].properties["battery"]
                  <= Max(0, FULL - 2 * ((now - charged.at) \div Period(devices[op.dev]))) )

\* C17 witness: replaceBattery was delivered while the last decay tick of the
\* flat battery was still pending; one period later both chains have ticked
\* and the battery is at 98.
C17_TwoChainsTicked ==
    /\ DecayTick(op)
    /\ charged.at > 0
    /\ charged.chains = 2
    /\ now = charged.at + Period(devices[op.dev])
    /\ devices[op.dev].properties["battery"] = FULL - 2
    /\ Cardinality(PendingDecay(queue, op.dev)) = 2

Event(cb, t, i) == [at |-> t, cb |-> cb, dev |-> i]

\* C18: each call of startTicks registers exactly one hourly tick an hour
\* ahead and one usage tick at delay 0, and exactly one decay tick at
\* now + life/100 if and only if the device has a battery property; a device
\* without a battery property has no decay tick pending, and its usage and
\* hourly ticks pass the power check.
C18_StartTicksRegistrations ==
    /\ op.name = "startTicks"
       => LET d == devices[op.dev]
              others == << Event("tickHourly", now + HOUR, op.dev),
                           Event("tickProductUsage", now, op.dev) >>
          IN registered =
                IF HasBattery(d)
                THEN << Event("tickBatteryDecay", now + Period(d), op.dev) >> \o others
                ELSE others
    /\ \A i \in Registered : ~HasBattery(devices[i]) => PendingDecay(queue, i) = {}
    /\ (op.name = "tickProductUsage" /\ ~HasBattery(devices[op.dev]))
       => /\ devices[op.dev].properties["buttonPress"] = 1
          /\ devices[op.dev].properties["$ts"] = now
          /\ registered = << Event("tickProductUsage", nextUsageTime(now), op.dev) >>
    /\ (op.name = "tickHourly" /\ ~HasBattery(devices[op.dev]))
       => /\ devices[op.dev].properties["light"] = sunBright(now)
          /\ devices[op.dev].properties["$ts"] = now

\* C18 witness: startTicks has just been called on a device without a battery
\* property and registered an hourly and a usage tick only.
C18_StartedWithoutBattery ==
    /\ op.name = "startTicks"
    /\ ~HasBattery(devices[op.dev])
    /\ Len(registered) = 2
    /\ Cardinality(Pending(queue, op.dev, "tickHourly")) >= 1

\* C19: every comms tick, whatever the reliability, the draw and the battery
\* level, sets commsOK = (probability > draw) and registers exactly one comms
\* tick at a delay in [0, 100 x commsUpDownPeriod], so a started chain always
\* has a tick pending; with reliability 1.0 commsOK is true after every comms
\* tick and with 0.0 it is false; no external command changes commsOK.
C19_CommsTickPerpetual ==
    /\ [] ( op.name = "tickCommsUpDown"
             => LET d == devices[op.dev]
                    prob == commsUpProbability(d, op.arg[2])
                IN /\ d.commsOK = (prob.num > op.arg[1] * prob.den)
                   /\ Len(registered) = 1
                   /\ registered[1].cb = "tickCommsUpDown"
                   /\ registered[1].dev = op.dev
                   /\ registered[1].at - now \in 0..(100 * Hundredths(d.commsUpDownPeriod))
                   /\ (d.commsReliability = Fraction(100) => d.commsOK)
                   /\ (d.commsReliability = Fraction(0) => ~d.commsOK) )
    /\ [][ /\ \A i \in Registered :
                 (Pending(queue, i, "tickCommsUpDown") # {}
                  => Pending(queue', i, "tickCommsUpDown") # {})
            /\ (op'.name = "externalEvent"
                => \A j \in Registered : devices'[j].commsOK = devices[j].commsOK) ]_vars

\* C19 witness: a comms tick has fired on a device with a flat battery and a
\* trajectory reliability, found comms up, and registered the next comms tick
\* at the longest delay, 100 x commsUpDownPeriod.
C19_CappedCommsTick ==
    /\ op.name = "tickCommsUpDown"
    /\ Flat(devices[op.dev])
    /\ ~devices[op.dev].commsReliability.number
    /\ devices[op.dev].commsOK
    /\ registered = << Event("tickCommsUpDown",
                             now + 100 * Hundredths(devices[op.dev].commsUpDownPeriod),
                             op.dev) >>

NoTickPending(i) == \A cb \in TickKinds : Pending(queue, i, cb) = {}

\* C20: once the battery of a device without autoreplace is at 0, and as long
\* as replaceBattery is not delivered, no operation changes a property of the
\* device or registers a decay, hourly or usage tick, so each pending one fires
\* once more at most; and eventually none of the three kinds is pending.
C20_ExhaustedQuiescent ==
    /\ [][ \A i \in Registered :
              (Flat(devices[i]) /\ ~devices[i].batteryAutoreplace)
              => /\ devices'[i] = devices[i]
                 /\ mutated' = <<>>
                 /\ registered' = <<>>
                 /\ \A cb \in TickKinds :
                       Cardinality(Pending(queue', i, cb))
                         <= Cardinality(Pending(queue, i, cb)) ]_vars
    /\ \A i \in 1..MaxDevices :
          (i \in Registered /\ Flat(devices[i]))
          ~> (i \in Registered /\ Flat(devices[i]) /\ NoTickPending(i))

\* C20 witness: the last pending tick of a flat device has fired, changed
\* nothing and registered nothing, after a command was ignored because the
\* battery was flat; none of the three kinds of tick is pending.
C20_AllTicksEnded ==
    /\ op.name \in TickKinds
    /\ Flat(devices[op.dev])
    /\ "buttonPress" \in DOMAIN devices[op.dev].properties
    /\ devices[op.dev].properties["firmware"] = "f1"
    /\ calls < MaxCalls
    /\ NoTickPending(op.dev)
    /\ mutated = <<>>

====
